---- MODULE Spec2Model ----
(***************************************************************************)
(* DNA Motif & Perplexity Analyzer (src/code.py, src/b.py, src/t.py).      *)
(*                                                                         *)
(* A nucleotide string is a sequence of one-character strings.  The        *)
(* feature functions of src/code.py lines 43-88 are operators; the Upload  *)
(* & Analyze page (lines 107-145) is a state machine over the uploaded     *)
(* file, the parsed records and the rows collected so far.  A direct call  *)
(* of one feature function is the pair (call, ret).  The accounts of       *)
(* src/b.py (the file users.csv) and src/t.py (a table in the session),    *)
(* the login flag and the page gates are a state machine over browser      *)
(* sessions, each running its script one handler step at a time.           *)
(***************************************************************************)
EXTENDS Integers, Sequences, FiniteSets, TLC

VARIABLES
    pc,            \* position of the script / of the direct call
    call,          \* the function being called and its arguments
    ret,           \* the value the call returned
    content,       \* the uploaded file: its lines, each split at whitespace
    records,       \* (seq_id, sequence) pairs parsed from content
    idx,           \* records consumed by the extraction loop
    feature_rows,  \* rows appended by the extraction loop
    errors,        \* identifiers reported through st.error by the loop
    results_df,    \* st.session_state["results_df"]
    users_csv,     \* src/b.py: the file users.csv
    session_state, \* st.session_state of every browser session
    script         \* every session's script run: handler position and locals

vars == <<pc, call, ret, content, records, idx, feature_rows, errors, results_df,
          users_csv, session_state, script>>

(***************************************************************************)
(* Bounds of the model.                                                    *)
(***************************************************************************)
MaxLen == 4        \* longest nucleotide string drawn exhaustively
MaxArm == 2        \* largest min_len / max_len handed to detect_cruciform
MaxSpacer == 1     \* largest spacer handed to detect_cruciform
MaxK == 3          \* largest k handed to calculate_perplexity
MaxUnits == 8      \* most runs-and-loops units in a G-quadruplex input
MaxRepeatLen == 12 \* longest string handed to detect_direct_repeats
MaxLines == 3      \* most lines of an uploaded file
MaxZUnits == 6     \* most units in a Z-DNA input
MaxSessions == 2   \* browser sessions that register at once
MaxVisitors == 1   \* browser sessions that log in and visit pages
MaxRows == 2       \* most rows users.csv grows to
MaxRuns == 1       \* most analyses one session stores

(***************************************************************************)
(* Python primitives.                                                      *)
(***************************************************************************)
Min(a, b) == IF a < b THEN a ELSE b
Max(a, b) == IF a < b THEN b ELSE a

\* All strings over alphabet S of length at most n.
StringsUpTo(S, n) == UNION {[1..m -> S] : m \in 0..n}

\* s[a:b]: a negative index counts from the end, and both are clamped.
SliceIndex(s, x) == IF x < 0 THEN Max(x + Len(s), 0) ELSE Min(x, Len(s))
Slice(s, a, b) == SubSeq(s, SliceIndex(s, a) + 1, SliceIndex(s, b))

\* s[::-1]
Reverse(s) == [j \in 1..Len(s) |-> s[Len(s) + 1 - j]]

\* str.upper() on the symbols of the model: a lower-case letter becomes its
\* capital, every other symbol stays.
LowerCase == <<"a", "c", "g", "t", "n">>
UpperCase == <<"A", "C", "G", "T", "N">>
UpperChar(c) ==
    IF \E j \in 1..Len(LowerCase) : LowerCase[j] = c
    THEN UpperCase[CHOOSE j \in 1..Len(LowerCase) : LowerCase[j] = c]
    ELSE c
Upper(s) == [j \in 1..Len(s) |-> UpperChar(s[j])]

(***************************************************************************)
(* reverse_complement: str.maketrans('ATGCatgc', 'TACGtacg'), then [::-1]. *)
(***************************************************************************)
ComplementFrom == <<"A", "T", "G", "C", "a", "t", "g", "c">>
ComplementTo == <<"T", "A", "C", "G", "t", "a", "c", "g">>
\* The table written 'ATGCatgc' -> 'TTCGttcg'.
TranslateTypo(c) ==
    IF c \in {"A", "T"} THEN "T"
    ELSE IF c \in {"a", "t"} THEN "t"
    ELSE IF \E j \in 1..Len(ComplementFrom) : ComplementFrom[j] = c
    THEN ComplementTo[CHOOSE j \in 1..Len(ComplementFrom) : ComplementFrom[j] = c]
    ELSE c

Translate(c) ==
    IF \E j \in 1..Len(ComplementFrom) : ComplementFrom[j] = c
    THEN ComplementTo[CHOOSE j \in 1..Len(ComplementFrom) : ComplementFrom[j] = c]
    ELSE c
reverse_complement(seq) == Reverse([j \in 1..Len(seq) |-> Translate(seq[j])])

(***************************************************************************)
(* detect_cruciform: for size in range(min_len, max_len + 1), for i in     *)
(* range(len(seq) - 2*size - spacer + 1), count the i whose left arm's     *)
(* reverse complement is the right arm.  seq is upper-cased first.         *)
(***************************************************************************)
DefaultMinLen == 4
DefaultMaxLen == 6
DefaultSpacer == 10

RECURSIVE CruciformInner(_, _, _, _, _)
CruciformInner(seq, size, spacer, i, stop) ==
    IF i >= stop THEN 0
    ELSE LET left == Slice(seq, i, i + size)
             right == Slice(seq, i + size + spacer, i + 2 * size + spacer)
         IN  (IF reverse_complement(left) = right THEN 1 ELSE 0)
             + CruciformInner(seq, size, spacer, i + 1, stop)

RECURSIVE CruciformOuter(_, _, _, _)
CruciformOuter(seq, size, stop, spacer) ==
    IF size >= stop THEN 0
    ELSE CruciformInner(seq, size, spacer, 0, Len(seq) - 2 * size - spacer + 1)
         + CruciformOuter(seq, size + 1, stop, spacer)

\* The loop over sizes written as range(min_len, max_len).
detect_cruciform_exclusive(seq, min_len, max_len, spacer) ==
    CruciformOuter(Upper(seq), min_len, max_len, spacer)

detect_cruciform(seq, min_len, max_len, spacer) ==
    CruciformOuter(Upper(seq), min_len, max_len + 1, spacer)

(***************************************************************************)
(* calculate_perplexity: the k-mers sequence[i:i+k] for i in               *)
(* range(len(sequence) - k + 1), their value_counts, p = count / total,    *)
(* entropy = -sum(p * log2(p)), result 2 ** entropy.                       *)
(*                                                                         *)
(* The result is a real.  The model keeps probs exactly, one fraction      *)
(* count / total for each distinct k-mer in order of first occurrence, and *)
(* the result as the value 2 ** -sum(p * log2(p)) of that list.  Each term *)
(* p * log2(p) is 0 when p = 1 and negative when 0 < p < 1, so the result  *)
(* is exactly 1 when every p is 1 (and when there is no k-mer at all: the  *)
(* sum is empty and 2 ** 0 = 1), and greater than 1 otherwise.             *)
(***************************************************************************)
\* The windows taken side by side instead of sliding by one symbol.
KmersSideBySide(sequence, k) ==
    IF k < 1 THEN <<>>
    ELSE [j \in 1..(Len(sequence) \div k) |-> Slice(sequence, (j - 1) * k, j * k)]

Kmers(sequence, k) ==
    [j \in 1..Max(Len(sequence) - k + 1, 0) |-> Slice(sequence, j - 1, j - 1 + k)]

\* value_counts: the number of occurrences of kmers[j] in kmers.
KmerCount(kmers, j) == Cardinality({m \in 1..Len(kmers) : kmers[m] = kmers[j]})

IsFirstOccurrence(kmers, j) == \A m \in 1..(j - 1) : kmers[m] # kmers[j]

RECURSIVE Probs(_, _)
Probs(kmers, j) ==
    IF j > Len(kmers) THEN <<>>
    ELSE (IF IsFirstOccurrence(kmers, j)
          THEN <<[num |-> KmerCount(kmers, j), den |-> Len(kmers)]>>
          ELSE <<>>) \o Probs(kmers, j + 1)

calculate_perplexity(sequence, k) == [probs |-> Probs(Kmers(sequence, k), 1)]

\* 2 ** entropy = 1: no term of the entropy is negative.
PerplexityIsOne(perplexity) ==
    \A j \in 1..Len(perplexity.probs) : perplexity.probs[j].num = perplexity.probs[j].den

DefaultK == 3

(***************************************************************************)
(* re.findall(pattern, seq): the matches found scanning left to right,     *)
(* each search resuming where the last match ended.  MatchEnd(s, p) is the *)
(* end of the match the backtracking matcher finds at 0-based position p,  *)
(* or -1; ends maps every position 0..len(seq) to it.  The result is the   *)
(* list of <<start, end>> spans; the detectors return its length.          *)
(***************************************************************************)
NoMatch == 0 - 1

RECURSIVE FindAll(_, _)
FindAll(ends, p) ==
    IF p \notin DOMAIN ends THEN <<>>
    ELSE LET e == ends[p]
         IN  IF e = NoMatch THEN FindAll(ends, p + 1)
             ELSE <<<<p, e>>>> \o FindAll(ends, IF e > p THEN e ELSE p + 1)

\* The symbol at 0-based position p.
At(s, p) == s[p + 1]

\* The number of consecutive symbols of class C from position p on, at most cap.
RECURSIVE RunLength(_, _, _, _)
RunLength(C, s, p, cap) ==
    IF cap <= 0 \/ p >= Len(s) \/ At(s, p) \notin C THEN 0
    ELSE 1 + RunLength(C, s, p + 1, cap - 1)

\* The symbols of the model: the nucleotide letters in both cases, and "-",
\* which no nucleotide alphabet holds.  \w matches the letters; . matches every
\* symbol (a record holds no line break: the file is cut by splitlines).
WordSymbols == {"A", "C", "G", "T", "N", "a", "c", "g", "t", "n"}
Symbols == WordSymbols \cup {"-"}
DotSymbols == Symbols

(***************************************************************************)
(* detect_g_quadruplex: (G{3,}\w{1,7}){3,}G{3,}.  Every quantifier is      *)
(* greedy: the matcher takes the longest G run and the longest loop first, *)
(* prefers one more group to the closing run, and backs off in that order. *)
(***************************************************************************)
MinGRun == 3
MinLoop == 1
MaxLoop == 7
MinGroups == 3

RECURSIVE G4Loop(_, _, _, _)
RECURSIVE G4Run(_, _, _, _)
RECURSIVE G4Rest(_, _, _)

\* A loop of w symbols at q, which ends group n + 1; then a shorter one.
G4Loop(s, q, n, w) ==
    IF w < MinLoop THEN NoMatch
    ELSE LET e == G4Rest(s, q + w, n + 1)
         IN  IF e # NoMatch THEN e ELSE G4Loop(s, q, n, w - 1)

\* A run of g symbols G at p followed by the longest loop; then a shorter run.
G4Run(s, p, n, g) ==
    IF g < MinGRun THEN NoMatch
    ELSE LET e == G4Loop(s, p + g, n, RunLength(WordSymbols, s, p + g, MaxLoop))
         IN  IF e # NoMatch THEN e ELSE G4Run(s, p, n, g - 1)

G4Group(s, p, n) == G4Run(s, p, n, RunLength({"G"}, s, p, Len(s)))

\* The pattern written (G{3,}\w{1,7}){3}G{3,}: after the third group only the
\* closing run.
G4RestExactlyFour(s, p, n) ==
    LET g == RunLength({"G"}, s, p, Len(s))
    IN  IF n < MinGroups THEN G4Group(s, p, n)
        ELSE IF g >= MinGRun THEN p + g
        ELSE NoMatch

\* What follows n complete groups at p.
G4Rest(s, p, n) ==
    LET more == G4Group(s, p, n)
        g == RunLength({"G"}, s, p, Len(s))
    IN  IF n < MinGroups THEN more
        ELSE IF more # NoMatch THEN more
        ELSE IF g >= MinGRun THEN p + g
        ELSE NoMatch

G4MatchEnd(s, p) == G4Rest(s, p, 0)

G4Matches(seq) == FindAll([p \in 0..Len(seq) |-> G4MatchEnd(seq, p)], 0)

detect_g_quadruplex(seq) == Len(G4Matches(seq))

(***************************************************************************)
(* detect_z_dna: (CG){6,}.                                                 *)
(***************************************************************************)
MinCGRepeats == 6

RECURSIVE CGRepeats(_, _)
CGRepeats(s, p) ==
    IF p + 2 <= Len(s) /\ At(s, p) = "C" /\ At(s, p + 1) = "G"
    THEN 1 + CGRepeats(s, p + 2)
    ELSE 0

\* The pattern written (CG){7,}: one repeat too many asked for.
ZDnaMatchEndStrict(s, p) ==
    IF CGRepeats(s, p) > MinCGRepeats THEN p + 2 * CGRepeats(s, p) ELSE NoMatch

ZDnaMatchEnd(s, p) ==
    IF CGRepeats(s, p) >= MinCGRepeats THEN p + 2 * CGRepeats(s, p) ELSE NoMatch

ZDnaMatches(seq) == FindAll([p \in 0..Len(seq) |-> ZDnaMatchEnd(seq, p)], 0)

detect_z_dna(seq) == Len(ZDnaMatches(seq))

(***************************************************************************)
(* detect_tata_box: TATA[AT]A[AT].                                         *)
(***************************************************************************)
\* The pattern written TATA[AT]A.
TataPatternShort == <<{"T"}, {"A"}, {"T"}, {"A"}, {"A", "T"}, {"A"}>>

TataPattern == <<{"T"}, {"A"}, {"T"}, {"A"}, {"A", "T"}, {"A"}, {"A", "T"}>>

TataMatchEnd(s, p) ==
    IF /\ p + Len(TataPattern) <= Len(s)
       /\ \A j \in 1..Len(TataPattern) : At(s, p + j - 1) \in TataPattern[j]
    THEN p + Len(TataPattern)
    ELSE NoMatch

TataMatches(seq) == FindAll([p \in 0..Len(seq) |-> TataMatchEnd(seq, p)], 0)

detect_tata_box(seq) == Len(TataMatches(seq))

(***************************************************************************)
(* detect_direct_repeats: (.{3,6})\1+.  The group takes the longest motif  *)
(* first (6 symbols, then 5, 4, 3); \1+ then takes every further copy.     *)
(***************************************************************************)
MinMotif == 3
MaxMotif == 6

\* The number of copies of s[p:p+g] that follow one another from position q on.
RECURSIVE Copies(_, _, _, _)
Copies(s, p, g, q) ==
    IF q + g <= Len(s) /\ Slice(s, q, q + g) = Slice(s, p, p + g)
    THEN 1 + Copies(s, p, g, q + g)
    ELSE 0

\* The pattern written (.{3,6})\1: one further copy only.
RECURSIVE RepeatTryOnce(_, _, _)
RepeatTryOnce(s, p, g) ==
    IF g < MinMotif THEN NoMatch
    ELSE IF Copies(s, p, g, p + g) >= 1
         THEN p + 2 * g
         ELSE RepeatTryOnce(s, p, g - 1)

RECURSIVE RepeatTry(_, _, _)
RepeatTry(s, p, g) ==
    IF g < MinMotif THEN NoMatch
    ELSE IF Copies(s, p, g, p + g) >= 1
         THEN p + g * (1 + Copies(s, p, g, p + g))
         ELSE RepeatTry(s, p, g - 1)

RepeatMatchEnd(s, p) == RepeatTry(s, p, RunLength(DotSymbols, s, p, MaxMotif))

RepeatMatches(seq) == FindAll([p \in 0..Len(seq) |-> RepeatMatchEnd(seq, p)], 0)

detect_direct_repeats(seq) == Len(RepeatMatches(seq))

(***************************************************************************)
(* extract_features: the record of one sequence, computed on seq.upper().  *)
(* No statement of it raises for a string, whatever its symbols.           *)
(***************************************************************************)
\* 'Sequence Length' taken as the number of k-mers.
extract_features_kmer_length(seq) ==
    LET u == Upper(seq)
    IN  [Perplexity |-> calculate_perplexity(u, DefaultK),
         GQuadruplex |-> detect_g_quadruplex(u),
         ZDna |-> detect_z_dna(u),
         Cruciform |-> detect_cruciform(u, DefaultMinLen, DefaultMaxLen, DefaultSpacer),
         TataBox |-> detect_tata_box(u),
         DirectRepeats |-> detect_direct_repeats(u),
         SequenceLength |-> Len(Kmers(u, DefaultK))]

extract_features(seq) ==
    LET u == Upper(seq)
    IN  [Perplexity |-> calculate_perplexity(u, DefaultK),
         GQuadruplex |-> detect_g_quadruplex(u),
         ZDna |-> detect_z_dna(u),
         Cruciform |-> detect_cruciform(u, DefaultMinLen, DefaultMaxLen, DefaultSpacer),
         TataBox |-> detect_tata_box(u),
         DirectRepeats |-> detect_direct_repeats(u),
         SequenceLength |-> Len(u)]

\* Whether extract_features(seq) raises: neither it nor a function it calls
\* holds a raise statement, checks its input, or applies an operation that
\* fails on a string (a slice out of range is empty, range() of a negative
\* number is empty, an empty k-mer list sums to 0).
extract_features_raises(seq) == FALSE

(***************************************************************************)
(* Accounts and sessions (src/b.py lines 37-58 and 82-88, src/t.py lines   *)
(* 41-113).  users.csv holds text; pandas types a column when it reads it  *)
(* back: a username column whose every cell is a number comes back as      *)
(* integers, any other column as strings, and Python never finds the       *)
(* string "7" equal to the integer 7.  The password column holds SHA-256   *)
(* digests in hexadecimal, which come back as the strings written.         *)
(***************************************************************************)
Sessions == 1..MaxSessions
Apps == {"b", "t"}

\* hashlib.sha256(password.encode()).hexdigest()
hash_password(password) == <<"sha256", password>>

\* A Python value: a string, or the integer a numeric cell parses to.
StrValue(text) == [kind |-> "str", text |-> text]
IntValue(text) == [kind |-> "int", text |-> text]

NumericTexts == {"7"}

\* users.csv before the first save_user, and a file with rows.
NoFile == [exists |-> FALSE, rows |-> <<>>]
File(rows) == [exists |-> TRUE, rows |-> rows]

\* pd.read_csv(USER_FILE): the rows with the username column typed.
read_csv(file) ==
    LET numeric == \A j \in 1..Len(file.rows) : file.rows[j].username \in NumericTexts
    IN  [j \in 1..Len(file.rows) |->
            [username |-> IF numeric THEN IntValue(file.rows[j].username)
                          ELSE StrValue(file.rows[j].username),
             password |-> file.rows[j].password]]

\* df.to_csv(USER_FILE, index=False): every cell as text.
to_csv(df) ==
    File([j \in 1..Len(df) |->
            [username |-> df[j].username.text, password |-> df[j].password]])

\* load_users(): dict(zip(df.username, df.password)), kept as the rows; a
\* later row with the same key replaces the earlier one.
load_users(file) == IF file.exists THEN read_csv(file) ELSE <<>>

\* username in users
InUsers(username, users) == \E j \in 1..Len(users) : users[j].username = StrValue(username)

\* users.get(username): None, or the password of the last row of that key.
NoneValue == <<"None">>
UsersGet(username, users) ==
    LET hits == {j \in 1..Len(users) : users[j].username = StrValue(username)}
    IN  IF hits = {} THEN NoneValue
        ELSE users[CHOOSE j \in hits : \A i \in hits : i <= j].password

\* authenticate(username, password, users)

authenticate(username, password, users) ==
    UsersGet(username, users) = hash_password(password)

\* st.session_state of a session that has run no script yet, with lines
\* 82-83 of b.py and 41-45 of t.py applied.
NewSession(app) ==
    [app |-> app, logged_in |-> FALSE, username |-> "", registered_users |-> {},
     results_df |-> 0]

\* A script between two runs: no handler in progress.
IdleScript ==
    [pc |-> "idle", page |-> "none", username |-> "", password |-> "", confirm |-> "",
     users |-> <<>>, df_existing |-> <<>>, message |-> "none"]

NoAccounts ==
    /\ users_csv = NoFile
    /\ session_state = [s \in Sessions |-> NewSession("b")]
    /\ script = [s \in Sessions |-> IdleScript]

AccountsUnchanged == UNCHANGED <<users_csv, session_state, script>>

(***************************************************************************)
(* Direct calls: one feature function applied to arguments drawn from a    *)
(* bounded set.                                                            *)
(***************************************************************************)
NoCall == [fn |-> "none", seq |-> <<>>, k |-> 0, min_len |-> 0, max_len |-> 0, spacer |-> 0]

Call(fn, seq, k, min_len, max_len, spacer) ==
    [fn |-> fn, seq |-> seq, k |-> k, min_len |-> min_len, max_len |-> max_len, spacer |-> spacer]

IdlePage ==
    /\ content = <<>>
    /\ records = <<>>
    /\ idx = 0
    /\ feature_rows = <<>>
    /\ errors = <<>>
    /\ results_df = <<>>
    /\ NoAccounts

PageUnchanged ==
    /\ UNCHANGED <<content, records, idx, feature_rows, errors, results_df>>
    /\ AccountsUnchanged

InitCall(calls) ==
    /\ pc = "call"
    /\ call \in calls
    /\ ret = 0
    /\ IdlePage

Return(value) ==
    /\ ret' = value
    /\ pc' = "returned"
    /\ UNCHANGED call
    /\ PageUnchanged

\* Concatenation of a sequence of strings.
RECURSIVE Concat(_)
Concat(parts) == IF parts = <<>> THEN <<>> ELSE Head(parts) \o Concat(Tail(parts))

\* n copies of a string.
Rep(s, n) == Concat([j \in 1..n |-> s])

Prefixes(s) == {SubSeq(s, 1, n) : n \in 0..Len(s)}

\* detect_cruciform
CruciformAlphabet == {"A", "T", "C", "G", "a"}
CruciformCalls ==
    {Call("detect_cruciform", s, 0, a, b, g) :
        s \in StringsUpTo(CruciformAlphabet, MaxLen),
        a \in 1..MaxArm, b \in 1..MaxArm, g \in (0 - 1)..MaxSpacer}

CallCruciform ==
    /\ pc = "call"
    /\ call.fn = "detect_cruciform"
    /\ Return(detect_cruciform(call.seq, call.min_len, call.max_len, call.spacer))

InitCruciform == InitCall(CruciformCalls)
NextCruciform == CallCruciform
SpecCruciform == InitCruciform /\ [][NextCruciform]_vars

\* calculate_perplexity
PerplexityAlphabet == {"A", "C", "G"}
PerplexityCalls ==
    {Call("calculate_perplexity", s, k, 0, 0, 0) :
        s \in StringsUpTo(PerplexityAlphabet, MaxLen + 2), k \in (0 - 1)..MaxK}

CallPerplexity ==
    /\ pc = "call"
    /\ call.fn = "calculate_perplexity"
    /\ Return(calculate_perplexity(call.seq, call.k))

InitPerplexity == InitCall(PerplexityCalls)
NextPerplexity == CallPerplexity
SpecPerplexity == InitPerplexity /\ [][NextPerplexity]_vars

\* Both functions that take configuration parameters.
InitConfig == InitCall(CruciformCalls \cup PerplexityCalls)
NextConfig == CallCruciform \/ CallPerplexity
SpecConfig == InitConfig /\ [][NextConfig]_vars

\* detect_g_quadruplex: strings made of G runs and loops.
G4Units == {<<"G", "G", "G">>, <<"G", "G", "G", "T", "T", "T", "T">>}
G4Example == Rep(<<"G", "G", "G", "T", "T", "T">>, 3) \o <<"G", "G", "G">>
G4Broken ==
    Rep(<<"G", "G", "G", "T">>, 2) \o <<"G", "G", "G", "-">> \o G4Example
G4Strings ==
    {Concat(u) : u \in StringsUpTo(G4Units, MaxUnits)}
        \cup Prefixes(G4Example) \cup Prefixes(G4Broken)
G4Calls == {Call("detect_g_quadruplex", s, 0, 0, 0, 0) : s \in G4Strings}

CallGQuadruplex ==
    /\ pc = "call"
    /\ call.fn = "detect_g_quadruplex"
    /\ Return(G4Matches(call.seq))

InitGQuadruplex == InitCall(G4Calls)
NextGQuadruplex == CallGQuadruplex
SpecGQuadruplex == InitGQuadruplex /\ [][NextGQuadruplex]_vars

\* detect_direct_repeats
RepeatAlphabet == {"A", "C"}
RepeatCalls ==
    {Call("detect_direct_repeats", s, 0, 0, 0, 0) :
        s \in StringsUpTo(RepeatAlphabet, MaxRepeatLen)}

CallDirectRepeats ==
    /\ pc = "call"
    /\ call.fn = "detect_direct_repeats"
    /\ Return(RepeatMatches(call.seq))

InitDirectRepeats == InitCall(RepeatCalls)
NextDirectRepeats == CallDirectRepeats
SpecDirectRepeats == InitDirectRepeats /\ [][NextDirectRepeats]_vars

\* detect_z_dna: strings made of CG repeats, single symbols that break the
\* phase, and a repeat in lower case.
ZDnaUnits == {<<"C", "G", "C", "G", "C", "G">>, <<"C", "G">>, <<"G">>, <<"c", "g">>}
ZDnaStrings == {Concat(u) : u \in StringsUpTo(ZDnaUnits, MaxZUnits)}
ZDnaCalls == {Call("detect_z_dna", s, 0, 0, 0, 0) : s \in ZDnaStrings}

CallZDna ==
    /\ pc = "call"
    /\ call.fn = "detect_z_dna"
    /\ Return(ZDnaMatches(call.seq))

InitZDna == InitCall(ZDnaCalls)
NextZDna == CallZDna
SpecZDna == InitZDna /\ [][NextZDna]_vars

\* extract_features: every short string, and every prefix of one smallest
\* instance of each motif.
G4Instance == Rep(<<"G", "G", "G", "T">>, 3) \o <<"G", "G", "G">>
ZDnaInstance == Rep(<<"c", "g">>, 6)
CruciformInstance == <<"A", "A", "C", "G">> \o Rep(<<"T">>, 10) \o <<"C", "G", "T", "T">>
TataInstance == <<"T", "A", "T", "A", "A", "A", "T">>
RepeatInstance == <<"A", "C", "G", "A", "C", "G">>
MotifInstances == {G4Instance, ZDnaInstance, CruciformInstance, TataInstance, RepeatInstance}

ExtractAlphabet == {"A", "C", "G", "T", "a", "-"}
ExtractStrings ==
    StringsUpTo(ExtractAlphabet, MaxLen) \cup UNION {Prefixes(m) : m \in MotifInstances}
ExtractCalls == {Call("extract_features", s, 0, 0, 0, 0) : s \in ExtractStrings}

CallExtractFeatures ==
    /\ pc = "call"
    /\ call.fn = "extract_features"
    /\ IF extract_features_raises(call.seq)
       THEN /\ pc' = "raised"
            /\ UNCHANGED <<call, ret>>
            /\ PageUnchanged
       ELSE Return(extract_features(call.seq))

InitExtract == InitCall(ExtractCalls)
NextExtract == CallExtractFeatures
SpecExtract == InitExtract /\ [][NextExtract]_vars

(***************************************************************************)
(* The Upload & Analyze page of src/code.py.  content holds the lines of   *)
(* the uploaded file, each as the list of its whitespace-separated parts.  *)
(***************************************************************************)
\* Lines 117-124: a blank line is skipped; the first part is the identifier,
\* the other parts joined are the sequence, and a single part is both.
ParseLine(parts) ==
    [seq_id |-> parts[1],
     sequence |-> IF Len(parts) > 1 THEN Concat(Tail(parts)) ELSE parts[1]]

RECURSIVE ParseLines(_)
ParseLines(lines) ==
    IF lines = <<>> THEN <<>>
    ELSE (IF Head(lines) = <<>> THEN <<>> ELSE <<ParseLine(Head(lines))>>)
         \o ParseLines(Tail(lines))

Digits == <<"1", "2", "3", "4", "5", "6", "7", "8", "9">>
LineId(j) == <<"s", Digits[j]>>
BatchTokens == {<<"A", "C", "G", "T">>, <<"a", "c">>, <<"A", "-", "T">>}
LinesAt(j) ==
    {<<>>, <<LineId(j), <<"A", "C", "G", "T">>, <<"A", "C", "G", "T">>>>}
        \cup {<<t>> : t \in BatchTokens}
        \cup {<<LineId(j), t>> : t \in BatchTokens}
Contents ==
    UNION {{c \in [1..n -> UNION {LinesAt(j) : j \in 1..n}] :
                \A j \in 1..n : c[j] \in LinesAt(j)} : n \in 0..MaxLines}

Init ==
    /\ pc = "upload"
    /\ call = NoCall
    /\ ret = 0
    /\ content \in Contents
    /\ records = <<>>
    /\ idx = 0
    /\ feature_rows = <<>>
    /\ errors = <<>>
    /\ results_df = <<>>
    /\ NoAccounts

\* Lines 115-124.
Parse ==
    /\ pc = "upload"
    /\ records' = ParseLines(content)
    /\ pc' = "extract"
    /\ UNCHANGED <<call, ret, content, idx, feature_rows, errors, results_df>>
    /\ AccountsUnchanged

\* Lines 128-134: one turn of the loop, the try and its except.
ExtractRecord ==
    /\ pc = "extract"
    /\ idx < Len(records)
    /\ LET seq_id == records[idx + 1].seq_id
           sequence == records[idx + 1].sequence
       IN  IF extract_features_raises(sequence)
           THEN /\ errors' = Append(errors, seq_id)
                /\ UNCHANGED feature_rows
           ELSE /\ feature_rows' = Append(feature_rows,
                                          [ID |-> seq_id] @@ extract_features(sequence))
                /\ UNCHANGED errors
    /\ idx' = idx + 1
    /\ UNCHANGED <<pc, call, ret, content, records, results_df>>
    /\ AccountsUnchanged

\* Lines 136-145: the table of the rows.  With no row the frame has no ID
\* column and line 137 raises KeyError, which ends the script run; otherwise
\* the classifier, fitted on labels that are all 0, predicts 0 for every row.
Finish ==
    /\ pc = "extract"
    /\ idx = Len(records)
    /\ IF feature_rows = <<>>
       THEN /\ pc' = "crashed"
            /\ UNCHANGED results_df
       ELSE /\ pc' = "done"
            /\ results_df' = [j \in 1..Len(feature_rows) |->
                                  [Prediction |-> 0] @@ feature_rows[j]]
    /\ UNCHANGED <<call, ret, content, records, idx, feature_rows, errors>>
    /\ AccountsUnchanged

Next == Parse \/ ExtractRecord \/ Finish

Spec == Init /\ [][Next]_vars

(***************************************************************************)
(* src/b.py, the Register page (lines 154-168) with load_users and         *)
(* save_user (lines 43-55).  Every session runs its script in a thread of  *)
(* its own and nothing locks users.csv, so the reads and the write of one  *)
(* Register are steps that the steps of other sessions may come between.   *)
(***************************************************************************)
Usernames == {"u", "7"}
Passwords == {"p", "q"}

FeaturesUnchanged ==
    UNCHANGED <<pc, call, ret, content, records, idx, feature_rows, errors, results_df>>

\* Every session runs one of the scripts apps.  Sessions differ in nothing but
\* the script they run, so of several sessions the first runs b.py and each
\* further one the script its predecessor does not.
InitSessions(sessions, apps) ==
    /\ pc = "sessions"
    /\ call = NoCall
    /\ ret = 0
    /\ content = <<>>
    /\ records = <<>>
    /\ idx = 0
    /\ feature_rows = <<>>
    /\ errors = <<>>
    /\ results_df = <<>>
    /\ users_csv = NoFile
    /\ session_state \in {st \in [sessions -> {NewSession(a) : a \in apps}] :
                            \A s \in sessions : s > 1 /\ Cardinality(apps) > 1
                                => st[1].app = "b" /\ st[s].app # st[s - 1].app}
    /\ script = [s \in sessions |-> IdleScript]

\* The script run of a session ends: its locals are gone, what it showed stays.
EndRun(s, page, message) ==
    script' = [script EXCEPT ![s] = [IdleScript EXCEPT !.page = page, !.message = message]]

\* The run of a Login that succeeded ends: the fields stay as typed.
EndLogin(s, page, username, password, message) ==
    script' = [script EXCEPT ![s] =
        [IdleScript EXCEPT !.page = page, !.username = username,
                           !.password = password, !.message = message]]

\* Lines 85-86 and 154-162: the page is offered to a session not logged in;
\* the button is pressed with the three fields filled.
RegisterClick(s) ==
    /\ session_state[s].app = "b"
    /\ script[s].pc = "idle"
    /\ ~ session_state[s].logged_in
    /\ Len(users_csv.rows) + Cardinality({t \in DOMAIN script : script[t].pc # "idle"}) < MaxRows
    /\ \E username \in Usernames, password \in Passwords, confirm \in Passwords :
        IF password # confirm
        THEN EndRun(s, "Register", "Passwords do not match")
        ELSE script' = [script EXCEPT ![s] =
                [IdleScript EXCEPT !.pc = "load_users", !.page = "Register",
                                   !.username = username, !.password = password,
                                   !.confirm = confirm]]
    /\ UNCHANGED <<users_csv, session_state>>
    /\ FeaturesUnchanged

\* Line 163: users = load_users()
RegisterLoadUsers(s) ==
    /\ script[s].pc = "load_users"
    /\ script' = [script EXCEPT ![s].users = load_users(users_csv), ![s].pc = "check"]
    /\ UNCHANGED <<users_csv, session_state>>
    /\ FeaturesUnchanged

\* Lines 164-166: if username in users
RegisterCheck(s) ==
    /\ script[s].pc = "check"
    /\ IF InUsers(script[s].username, script[s].users)
       THEN EndRun(s, "Register", "Username already exists")
       ELSE script' = [script EXCEPT ![s].pc = "save_read"]
    /\ UNCHANGED <<users_csv, session_state>>
    /\ FeaturesUnchanged

\* Lines 50-53 of save_user: the rows already in the file.
SaveUserRead(s) ==
    /\ script[s].pc = "save_read"
    /\ script' = [script EXCEPT
                    ![s].df_existing = IF users_csv.exists THEN read_csv(users_csv) ELSE <<>>,
                    ![s].pc = "save_write"]
    /\ UNCHANGED <<users_csv, session_state>>
    /\ FeaturesUnchanged

\* Lines 54-55 of save_user and line 168: the rows read and the new row
\* replace the file.
SaveUserWrite(s) ==
    /\ script[s].pc = "save_write"
    /\ users_csv' = to_csv(Append(script[s].df_existing,
                                  [username |-> StrValue(script[s].username),
                                   password |-> hash_password(script[s].password)]))
    /\ EndRun(s, "Register", "Registered successfully")
    /\ UNCHANGED session_state
    /\ FeaturesUnchanged

Register(s) ==
    \/ RegisterClick(s)
    \/ RegisterLoadUsers(s)
    \/ RegisterCheck(s)
    \/ SaveUserRead(s)
    \/ SaveUserWrite(s)

InitRegister == InitSessions(Sessions, {"b"})
NextRegister == \E s \in DOMAIN script : Register(s)
SpecRegister == InitRegister /\ [][NextRegister]_vars

(***************************************************************************)
(* src/b.py: navigation (lines 82-88), Login (140-152), Logout (170-173)   *)
(* and the gated pages (175-271).  A session runs one script at a time.    *)
(***************************************************************************)
AnalysisPages == {"Upload & Analyze", "Results", "Download Report", "History"}

\* The sidebar written without the test of logged_in.
PageOptionsOpen(app, logged_in) ==
    IF app = "b"
    THEN {"Login", "Register", "Home", "Upload & Analyze", "Results",
          "Download Report", "History", "Contact", "Logout"}
    ELSE {"Home", "Upload & Analyze", "Results", "Download Report", "Contact"}

\* Lines 85-88 of b.py, lines 108-110 of t.py: the pages the sidebar offers.
PageOptions(app, logged_in) ==
    IF app = "b"
    THEN IF ~ logged_in THEN {"Login", "Register"}
         ELSE {"Home", "Upload & Analyze", "Results", "Download Report",
               "History", "Contact", "Logout"}
    ELSE IF logged_in
         THEN {"Home", "Upload & Analyze", "Results", "Download Report", "Contact"}
         ELSE {}

\* The pages of b.py that begin with
\* if not st.session_state.get("logged_in", False): ... st.stop()
GatedPages == {"Home", "Upload & Analyze", "Results", "Download Report", "History"}

\* What a run of the Upload & Analyze page comes to: no file chosen, the
\* analysis stored, or an exception before the store (no row to fit on).
UploadOutcomes == {"no file", "Analysis complete", "exception"}

\* The body of a page: only an analysis that completes writes results_df.
PageBody(s, page, outcome) ==
    /\ session_state' = [session_state EXCEPT ![s].results_df =
            IF page = "Upload & Analyze" /\ outcome = "Analysis complete"
            THEN @ + 1 ELSE @]
    /\ EndRun(s, page, IF page = "Upload & Analyze" THEN outcome ELSE "shown")

\* Lines 140-152.
BLogin(s) ==
    /\ session_state[s].app = "b"
    /\ script[s].pc = "idle"
    /\ "Login" \in PageOptions("b", session_state[s].logged_in)
    /\ \E username \in Usernames, password \in Passwords :
        IF authenticate(username, password, load_users(users_csv))
        THEN /\ session_state' = [session_state EXCEPT ![s].logged_in = TRUE,
                                                       ![s].username = username]
             /\ EndLogin(s, "Login", username, password, "Logged in successfully")
        ELSE /\ EndRun(s, "Login", "Invalid credentials")
             /\ UNCHANGED session_state
    /\ UNCHANGED users_csv
    /\ FeaturesUnchanged

\* Lines 170-173.
BLogout(s) ==
    /\ session_state[s].app = "b"
    /\ script[s].pc = "idle"
    /\ "Logout" \in PageOptions("b", session_state[s].logged_in)
    /\ session_state' = [session_state EXCEPT ![s].logged_in = FALSE]
    /\ EndRun(s, "Logout", "You have been logged out")
    /\ UNCHANGED users_csv
    /\ FeaturesUnchanged

\* Lines 175-281: a page other than Login, Register and Logout.
BPage(s) ==
    /\ session_state[s].app = "b"
    /\ script[s].pc = "idle"
    /\ \E page \in PageOptions("b", session_state[s].logged_in)
                        \ {"Login", "Register", "Logout"},
          outcome \in UploadOutcomes :
        /\ outcome = "Analysis complete" => session_state[s].results_df < MaxRuns
        /\ IF page \in GatedPages /\ ~ session_state[s].logged_in
           THEN /\ EndRun(s, "stopped", "Please log in to access this page")
                /\ UNCHANGED session_state
           ELSE PageBody(s, page, outcome)
    /\ UNCHANGED users_csv
    /\ FeaturesUnchanged

(***************************************************************************)
(* src/t.py lines 41-113: the accounts are a table in the session.         *)
(***************************************************************************)
Emails == {"", "e"}

\* st.session_state["registered_users"].get(username)
RegisteredGet(s, username) ==
    {r \in session_state[s].registered_users : r.username = username}

\* Lines 51-81.
TRegister(s) ==
    /\ session_state[s].app = "t"
    /\ script[s].pc = "idle"
    /\ ~ session_state[s].logged_in
    /\ \E reg_username \in Usernames \cup {""}, reg_password \in Passwords \cup {""},
          reg_email \in Emails :
        IF reg_username = "" \/ reg_password = "" \/ reg_email = ""
        THEN /\ EndRun(s, "Register", "Please fill all fields")
             /\ UNCHANGED session_state
        ELSE IF RegisteredGet(s, reg_username) # {}
        THEN /\ EndRun(s, "Register", "Username already exists")
             /\ UNCHANGED session_state
        ELSE /\ session_state' = [session_state EXCEPT ![s].registered_users =
                    @ \cup {[username |-> reg_username, password |-> reg_password,
                             email |-> reg_email]}]
             /\ EndRun(s, "Register", "Registered successfully")
    /\ UNCHANGED users_csv
    /\ FeaturesUnchanged

\* Lines 83-99 with the button pressed; on success the run goes on through
\* line 108 to the page the fresh sidebar shows, Home.
TLogin(s) ==
    /\ session_state[s].app = "t"
    /\ script[s].pc = "idle"
    /\ ~ session_state[s].logged_in
    /\ \E username \in Usernames \cup {""}, password \in Passwords \cup {""} :
        IF \E user_data \in RegisteredGet(s, username) : user_data.password = password
        THEN /\ session_state' = [session_state EXCEPT ![s].logged_in = TRUE,
                                                       ![s].username = username]
             /\ EndLogin(s, "Home", username, password, "Welcome back")
        ELSE /\ EndRun(s, "Login", "Invalid username or password")
             /\ UNCHANGED session_state
    /\ UNCHANGED users_csv
    /\ FeaturesUnchanged

\* Lines 100-105.
TLogout(s) ==
    /\ session_state[s].app = "t"
    /\ script[s].pc = "idle"
    /\ session_state[s].logged_in
    /\ session_state' = [session_state EXCEPT ![s].logged_in = FALSE, ![s].username = ""]
    /\ EndRun(s, "Logout", "rerun")
    /\ UNCHANGED users_csv
    /\ FeaturesUnchanged

\* A run with no button pressed: lines 97-99 stop it in a session not logged
\* in; otherwise lines 108-113 and the page chosen, lines 166-244.
TPage(s) ==
    /\ session_state[s].app = "t"
    /\ script[s].pc = "idle"
    /\ IF PageOptions("t", session_state[s].logged_in) = {}
       THEN /\ EndRun(s, "stopped", "Please login to continue")
            /\ UNCHANGED session_state
       ELSE \E page \in PageOptions("t", session_state[s].logged_in),
               outcome \in UploadOutcomes :
                /\ outcome = "Analysis complete" => session_state[s].results_df < MaxRuns
                /\ PageBody(s, page, outcome)
    /\ UNCHANGED users_csv
    /\ FeaturesUnchanged

Visitors == 1..MaxVisitors

InitLogin == InitSessions(Visitors, Apps)
NextLogin ==
    \E s \in DOMAIN script :
        \/ Register(s)
        \/ BLogin(s)
        \/ BLogout(s)
        \/ BPage(s)
        \/ TRegister(s)
        \/ TLogin(s)
        \/ TLogout(s)
        \/ TPage(s)
SpecLogin == InitLogin /\ [][NextLogin]_vars

(***************************************************************************)
(* Properties.                                                             *)
(***************************************************************************)
Returned(fn) == pc = "returned" /\ call.fn = fn

\* The accepted alphabet: the nucleotides and the ambiguity code N, in either case.
ToleratedAlphabet == {"A", "C", "G", "T", "N", "a", "c", "g", "t", "n"}
IsValidSequence(s) == \A j \in 1..Len(s) : s[j] \in ToleratedAlphabet

\* C1: the record extract_features returns for a sequence s has its
\* 'Sequence Length' field equal to len(s), the length of the input as the
\* caller supplied it (the field is taken after upper-casing).
C1_LengthIsInputLength ==
    Returned("extract_features") /\ IsValidSequence(call.seq)
        => ret.SequenceLength = Len(call.seq)

C1_Witness ==
    /\ Returned("extract_features")
    /\ IsValidSequence(call.seq)
    /\ Upper(call.seq) # call.seq
    /\ Len(call.seq) = MaxLen
    /\ ret.SequenceLength = MaxLen

\* s[a:b] for 0 <= a <= b <= len(s).
Arm(s, a, b) == [j \in 1..(b - a) |-> s[a + j]]

\* The pairs (L, i) whose left arm's reverse complement is the right arm.
InvertedPairs(s, min_len, max_len, spacer) ==
    {x \in (min_len..max_len) \X (0..Len(s)) :
        LET L == x[1]
            i == x[2]
        IN  /\ i + 2 * L + spacer <= Len(s)
            /\ reverse_complement(Arm(s, i, i + L))
                 = Arm(s, i + L + spacer, i + 2 * L + spacer)}

\* C2, as claimed: detect_cruciform(seq, min_len, max_len, spacer) returns the
\* number of pairs (L, i), min_len <= L <= max_len, 0 <= i, i + 2L + spacer <=
\* len(seq), with reverse_complement(seq[i:i+L]) == seq[i+L+spacer:i+2L+spacer].
C2_CountsPairsOfSeq ==
    Returned("detect_cruciform")
        => ret = Cardinality(InvertedPairs(call.seq, call.min_len, call.max_len, call.spacer))

\* C2, amended: the pairs are those of seq.upper(), so arms that differ only in
\* case match; overlapping hits across L and i are all counted and no pair
\* outside the range is.
C2_CountsPairsOfUpper ==
    Returned("detect_cruciform")
        => ret = Cardinality(InvertedPairs(Upper(call.seq), call.min_len, call.max_len, call.spacer))

C2_Witness ==
    /\ Returned("detect_cruciform")
    /\ call.min_len < call.max_len
    /\ call.spacer = 1
    /\ ret >= 2
    /\ ret > Cardinality(InvertedPairs(call.seq, call.min_len, call.max_len, call.spacer))

\* C3: detect_cruciform gives the same count on a sequence and on its reverse
\* complement, for the same min_len, max_len and spacer.
C3_ReverseComplementSymmetric ==
    Returned("detect_cruciform")
        => ret = detect_cruciform(reverse_complement(call.seq),
                                  call.min_len, call.max_len, call.spacer)

C3_Witness ==
    /\ Returned("detect_cruciform")
    /\ reverse_complement(call.seq) # call.seq
    /\ call.spacer = 1
    /\ ret >= 2

\* s is n >= 1 copies, back to back, of one motif of length k.
IsRepetition(s, k) ==
    /\ k >= 1
    /\ Len(s) >= k
    /\ Len(s) % k = 0
    /\ \A j \in 1..(Len(s) - k) : s[j] = s[j + k]

IsOneSymbol(s) == \A j \in 1..Len(s) : s[j] = s[1]

\* C4, as claimed: calculate_perplexity(s, k) is exactly 1 for every s made of
\* n >= 1 back-to-back copies of one motif of length k.
C4_RepetitionHasPerplexityOne ==
    Returned("calculate_perplexity") /\ IsRepetition(call.seq, call.k)
        => PerplexityIsOne(ret)

\* C4, amended: for such an s the result is exactly 1 when n = 1 or the motif
\* is one symbol repeated (the sliding windows then all hold the same k-mer),
\* and greater than 1 for every other motif with n >= 2.
C4_PerplexityOneIffOneKmer ==
    Returned("calculate_perplexity") /\ IsRepetition(call.seq, call.k)
        => (PerplexityIsOne(ret) <=> (Len(call.seq) = call.k \/ IsOneSymbol(call.seq)))

C4_Witness ==
    /\ Returned("calculate_perplexity")
    /\ IsRepetition(call.seq, call.k)
    /\ call.k = 2
    /\ Len(call.seq) = 3 * call.k
    /\ IsOneSymbol(call.seq)
    /\ PerplexityIsOne(ret)

\* C5: extract_features never returns a feature record for an input that holds
\* a symbol outside the tolerated alphabet.
C5_InvalidSequenceRejected ==
    ~(Returned("extract_features") /\ ~IsValidSequence(call.seq))

\* C9: a call with an invalid configuration (k <= 0, k greater than the
\* sequence length, min_len > max_len, a negative spacer) never returns a
\* perplexity value or a cruciform count.
IsValidConfiguration(c) ==
    /\ c.fn = "calculate_perplexity" => (c.k >= 1 /\ c.k <= Len(c.seq))
    /\ c.fn = "detect_cruciform" => (c.min_len <= c.max_len /\ c.spacer >= 0)

C9_InvalidConfigurationRejected == pc = "returned" => IsValidConfiguration(call)

\* The shortest string each detector can match.
G4Window == (MinGroups + 1) * MinGRun + MinGroups * MinLoop
ZDnaWindow == 2 * MinCGRepeats
CruciformWindow == 2 * DefaultMinLen + DefaultSpacer
TataWindow == 7
RepeatWindow == 2 * MinMotif

\* C10: extract_features returns for every sequence, the empty one included,
\* and each detector's count is 0 on a sequence shorter than that detector's
\* smallest match.
C10_ShortSequencesCountZero ==
    /\ pc # "raised"
    /\ Returned("extract_features") =>
        /\ Len(call.seq) < G4Window => ret.GQuadruplex = 0
        /\ Len(call.seq) < ZDnaWindow => ret.ZDna = 0
        /\ Len(call.seq) < CruciformWindow => ret.Cruciform = 0
        /\ Len(call.seq) < TataWindow => ret.TataBox = 0
        /\ Len(call.seq) < RepeatWindow => ret.DirectRepeats = 0

C10_Witness ==
    /\ Returned("extract_features")
    /\ call.seq = SubSeq(CruciformInstance, 1, CruciformWindow - 1)
    /\ ret.Cruciform = 0
    /\ ret.DirectRepeats = 1

\* The records whose sequence holds a symbol outside the tolerated alphabet.
InvalidRecords == {j \in 1..Len(records) : ~IsValidSequence(records[j].sequence)}

\* The identifiers of the records, the j-th left out.
RECURSIVE IdsWithout(_, _, _)
IdsWithout(recs, j, m) ==
    IF m > Len(recs) THEN <<>>
    ELSE (IF m = j THEN <<>> ELSE <<recs[m].seq_id>>) \o IdsWithout(recs, j, m + 1)

\* C6: when exactly one sequence j of the N in the batch is invalid, the loop
\* ends with the N-1 records of the others, in input order and each tagged
\* with its own identifier, and with one recorded error, for j.
C6_OneFailureIsIsolated ==
    pc = "done" /\ Cardinality(InvalidRecords) = 1 =>
        LET j == CHOOSE x \in InvalidRecords : TRUE
        IN  /\ Len(feature_rows) = Len(records) - 1
            /\ [m \in 1..Len(feature_rows) |-> feature_rows[m].ID] = IdsWithout(records, j, 1)
            /\ errors = <<records[j].seq_id>>

(***************************************************************************)
(* G-quadruplex chains, stated on positions: a run is 3 or more G, a loop  *)
(* is 1 to 7 symbols of a class C, a chain is runs joined by loops.        *)
(***************************************************************************)
\* The positions where a run that starts at p may end.
GRunEnds(s, p) ==
    {e \in (p + 3)..Len(s) : \A j \in p..(e - 1) : At(s, j) = "G"}

\* The positions where a loop of symbols of C that starts at q may end.
LoopEnds(s, q, C) ==
    {e \in (q + 1)..Min(q + 7, Len(s)) : \A j \in q..(e - 1) : At(s, j) \in C}

\* The positions reached from one of P by a run and a loop.
AfterGroup(s, P, C) ==
    UNION {LoopEnds(s, q, C) : q \in UNION {GRunEnds(s, p) : p \in P}}

\* The positions reached from one of P by any number of runs and loops.
RECURSIVE AfterGroups(_, _, _)
AfterGroups(s, P, C) ==
    LET Q == P \cup AfterGroup(s, P, C)
    IN  IF Q = P THEN P ELSE AfterGroups(s, Q, C)

AfterThreeGroups(s, b, C) == AfterGroup(s, AfterGroup(s, AfterGroup(s, {b}, C), C), C)

\* The ends of the chains of exactly four runs that start at b.
FourRunEnds(s, b, C) == UNION {GRunEnds(s, p) : p \in AfterThreeGroups(s, b, C)}

\* The ends of the chains of four or more runs that start at b.
ChainEnds(s, b, C) ==
    UNION {GRunEnds(s, p) : p \in AfterGroups(s, AfterThreeGroups(s, b, C), C)}

SetMax(S) == CHOOSE x \in S : \A y \in S : y <= x

\* The first position from p on where a four-run unit starts, or -1.
FirstUnit(s, p) ==
    LET starts == {b \in p..Len(s) : FourRunEnds(s, b, Symbols) # {}}
    IN  IF starts = {} THEN NoMatch ELSE CHOOSE b \in starts : \A c \in starts : b <= c

\* The numbers of units a left-to-right choice of non-overlapping four-run
\* units from p on may come to: each unit starts at the first position where
\* one starts, and ends at any of its ends.
RECURSIVE UnitCounts(_, _)
UnitCounts(s, p) ==
    LET b == FirstUnit(s, p)
    IN  IF b = NoMatch THEN {0}
        ELSE UNION {{1 + c : c \in UnitCounts(s, e)} : e \in FourRunEnds(s, b, Symbols)}

\* M lists, from left to right, the chains of s: each starts at the first
\* position after the one before where a chain starts, and runs to the
\* farthest end of the chains that start there.
IsChainScan(M, s) ==
    LET from(i) == IF i = 1 THEN 0 ELSE M[i - 1][2]
    IN  /\ \A i \in 1..Len(M) :
            /\ from(i) <= M[i][1]
            /\ ChainEnds(s, M[i][1], WordSymbols) # {}
            /\ M[i][2] = SetMax(ChainEnds(s, M[i][1], WordSymbols))
            /\ \A p \in from(i)..(M[i][1] - 1) : ChainEnds(s, p, WordSymbols) = {}
        /\ \A p \in from(Len(M) + 1)..Len(s) : ChainEnds(s, p, WordSymbols) = {}

G4LongChain == Rep(<<"G", "G", "G", "T", "T", "T", "T">>, 7) \o <<"G", "G", "G">>

\* C7 as stated: detect_g_quadruplex counts the non-overlapping,
\* left-to-right matches of the four-run unit (four runs of 3 or more G, each
\* two consecutive runs 1 to 7 arbitrary symbols apart), each unit one match;
\* GGGTTTGGGTTTGGGTTTGGG gives exactly 1.  Read on nucleotide sequences.
C7_CountsFourRunUnits ==
    Returned("detect_g_quadruplex") /\ IsValidSequence(call.seq) =>
        /\ Len(ret) \in UnitCounts(call.seq, 0)
        /\ call.seq = G4Example => Len(ret) = 1

\* C7 as amended: detect_g_quadruplex counts the non-overlapping,
\* left-to-right chains of four or more runs of 3 or more G, each two
\* consecutive runs 1 to 7 word symbols apart; a chain is taken as far as it
\* goes, so a chain of more than four runs is one match;
\* GGGTTTGGGTTTGGGTTTGGG gives exactly 1.
C7_CountsChainsOfFourOrMore ==
    Returned("detect_g_quadruplex") =>
        /\ IsChainScan(ret, call.seq)
        /\ call.seq = G4Example => Len(ret) = 1

C7_Witness ==
    /\ Returned("detect_g_quadruplex")
    /\ call.seq = G4LongChain
    /\ ret = <<<<0, Len(G4LongChain)>>>>

(***************************************************************************)
(* Tandem repeats, stated on positions.                                    *)
(***************************************************************************)
\* s[a:b] repeats with period g.
IsPeriodic(s, a, b, g) == \A j \in a..(b - g - 1) : At(s, j) = At(s, j + g)

\* s[a:b] is two or more whole copies of a motif of g symbols.
IsTandem(s, a, b, g) ==
    /\ g \in MinMotif..MaxMotif
    /\ b <= Len(s)
    /\ (b - a) % g = 0
    /\ b - a >= 2 * g
    /\ IsPeriodic(s, a, b, g)

\* A motif at p is followed by one further copy.
TandemStartsAt(s, p) ==
    \E g \in MinMotif..MaxMotif :
        p + 2 * g <= Len(s) /\ SubSeq(s, p + 1, p + g) = SubSeq(s, p + g + 1, p + 2 * g)

\* s is n >= 2 copies of a motif of 3 to 6 symbols and nothing else.
IsTandemRun(s) == \E g \in MinMotif..MaxMotif : IsTandem(s, 0, Len(s), g)

\* C8: detect_direct_repeats counts non-overlapping tandem repeats, from left
\* to right: each match is a motif of 3 to 6 symbols and at least one further
\* copy, taken with every whole copy that follows; a tandem run is counted
\* once however many copies it holds, and is never split into two matches.
C8_CountsTandemRunsOnce ==
    Returned("detect_direct_repeats") =>
        LET s == call.seq
            from(i) == IF i = 1 THEN 0 ELSE ret[i - 1][2]
        IN  /\ \A i \in 1..Len(ret) :
                /\ from(i) <= ret[i][1]
                /\ ret[i][2] <= Len(s)
                /\ \E g \in MinMotif..MaxMotif :
                    /\ IsTandem(s, ret[i][1], ret[i][2], g)
                    /\ ~ IsTandem(s, ret[i][1], ret[i][2] + g, g)
                /\ \A p \in from(i)..(ret[i][1] - 1) : ~ TandemStartsAt(s, p)
            /\ \A p \in from(Len(ret) + 1)..Len(s) : ~ TandemStartsAt(s, p)
            /\ \A i \in 1..(Len(ret) - 1) : \A g \in MinMotif..MaxMotif :
                ~ IsPeriodic(s, ret[i][1], ret[i + 1][2], g)
            /\ IsTandemRun(s) => Len(ret) = 1

C8_Witness ==
    /\ Returned("detect_direct_repeats")
    /\ call.seq = Rep(<<"A", "A", "C">>, 3) \o <<"C">>
    /\ ret = <<<<0, 9>>>>

(***************************************************************************)
(* Z-DNA runs, stated on positions.                                        *)
(***************************************************************************)
\* s[a:b] is CG repeated, in phase from a.
IsCGRun(s, a, b) ==
    /\ 0 <= a /\ a <= b /\ b <= Len(s)
    /\ (b - a) % 2 = 0
    /\ \A j \in a..(b - 1) : At(s, j) = IF (j - a) % 2 = 0 THEN "C" ELSE "G"

\* The maximal runs of CG of at least 6 repeats: no further CG before or after.
MaximalCGRuns(s) ==
    {r \in (0..Len(s)) \X (0..Len(s)) :
        /\ IsCGRun(s, r[1], r[2])
        /\ r[2] - r[1] >= 2 * 6
        /\ ~ IsCGRun(s, r[1] - 2, r[2])
        /\ ~ IsCGRun(s, r[1], r[2] + 2)}

CG12 == Rep(<<"C", "G">>, 6)
CG10 == Rep(<<"C", "G">>, 5)

\* C11: detect_z_dna counts the non-overlapping runs of CG repeated at least
\* 6 times in phase: its matches are, from left to right, exactly the maximal
\* runs of 6 or more repeats, each once; a run of 5 or fewer counts 0;
\* CGCGCGCGCGCG gives 1 and CGCGCGCGCG gives 0.
C11_CountsMaximalCGRuns ==
    Returned("detect_z_dna") =>
        /\ \A i \in 1..(Len(ret) - 1) : ret[i][2] <= ret[i + 1][1]
        /\ {ret[i] : i \in 1..Len(ret)} = MaximalCGRuns(call.seq)
        /\ Len(ret) = Cardinality(MaximalCGRuns(call.seq))
        /\ call.seq = CG12 => Len(ret) = 1
        /\ call.seq = CG10 => Len(ret) = 0

C11_Witness ==
    /\ Returned("detect_z_dna")
    /\ call.seq = CG12 \o <<"G">> \o CG12 \o <<"C", "G">>
    /\ ret = <<<<0, 12>>, <<13, 27>>>>

(***************************************************************************)
(* The account store of src/b.py.                                          *)
(***************************************************************************)
\* The usernames of the rows of users.csv, as written.
StoredUsernames(file) == {file.rows[j].username : j \in 1..Len(file.rows)}

UsernamesUnique(file) ==
    \A i, j \in 1..Len(file.rows) :
        file.rows[i].username = file.rows[j].username => i = j

\* Every row of the file before is a row of the file after, at its place.
RowsKept ==
    /\ Len(users_csv.rows) <= Len(users_csv'.rows)
    /\ \A j \in 1..Len(users_csv.rows) : users_csv'.rows[j] = users_csv.rows[j]

\* A Register that ends for a username the store holds is rejected and the
\* store stays as it is.
TakenUsernameRejected ==
    \A s \in DOMAIN script :
        /\ script[s].pc \in {"check", "save_write"}
        /\ script'[s].pc = "idle"
        /\ script[s].username \in StoredUsernames(users_csv)
        => /\ script'[s].message = "Username already exists"
           /\ users_csv' = users_csv

\* C12: after any Register steps of any sessions, in any order, users.csv
\* holds at most one row per username, no row saved before is lost, and a
\* Register for a username the store holds is rejected and leaves the store
\* unchanged.
C12_UsernamesStayUnique ==
    /\ [] UsernamesUnique(users_csv)
    /\ [][RowsKept /\ TakenUsernameRejected]_vars

(***************************************************************************)
(* The login gate of src/b.py and src/t.py.                                *)
(***************************************************************************)
\* The registrations the script of session s logs in against: the rows of
\* users.csv with the password hashed (b.py), the table of the session with
\* the password as typed (t.py).
StoredRegistration(s, username, password) ==
    IF session_state[s].app = "b"
    THEN \E j \in 1..Len(users_csv.rows) :
            /\ users_csv.rows[j].username = username
            /\ users_csv.rows[j].password = hash_password(password)
    ELSE \E r \in session_state[s].registered_users :
            r.username = username /\ r.password = password

\* The run that just ended in session s was a Login with these fields.
LoggedInBy(s) ==
    /\ script'[s].message \in {"Logged in successfully", "Welcome back"}
    /\ session_state'[s].username = script'[s].username
    /\ StoredRegistration(s, script'[s].username, script'[s].password)

\* An analysis page has run only in a session that is logged in, and a
\* session that has run Logout is not logged in.
GateHolds ==
    \A s \in DOMAIN script :
        /\ script[s].page \in AnalysisPages => session_state[s].logged_in
        /\ script[s].page = "Logout" => ~ session_state[s].logged_in

\* results_df is written only in a session logged in, and logged_in turns
\* true only by a Login that matches a stored registration.
GateStep ==
    \A s \in DOMAIN script :
        /\ session_state'[s].results_df # session_state[s].results_df
            => /\ session_state[s].logged_in
               /\ session_state'[s].logged_in
               /\ script'[s].page = "Upload & Analyze"
        /\ ~ session_state[s].logged_in /\ session_state'[s].logged_in => LoggedInBy(s)
        /\ script[s].pc = "idle" /\ script'[s].page = "Logout" /\ script'[s] # script[s]
            => ~ session_state'[s].logged_in

\* C13: in every reachable session state of b.py and t.py the analysis
\* pages (Upload & Analyze, Results, Download Report, History) have run, and
\* results_df is written, only while logged_in is true; logged_in becomes
\* true only through a Login whose username and password match a stored
\* registration, and Logout sets it back to false.
C13_PagesGatedByLogin == [] GateHolds /\ [][GateStep]_vars

\* A session of b.py, logged in against a row of users.csv, has stored an
\* analysis.
C13_Witness ==
    \E s \in DOMAIN script :
        /\ session_state[s].app = "b"
        /\ session_state[s].logged_in
        /\ \E j \in 1..Len(users_csv.rows) :
                users_csv.rows[j].username = session_state[s].username
        /\ session_state[s].results_df = 1
        /\ script[s].page = "Upload & Analyze"
        /\ script[s].message = "Analysis complete"

====
